---- MODULE Spec2Model ----
(***************************************************************************)
(* Model of schemasync_tables: the command-line application `app`          *)
(* (schemasync_tables.py) and its helpers (utils.py).                      *)
(*                                                                         *)
(* Strings are sequences of one-character strings, so that splitting,      *)
(* globbing, regular-expression search, string comparison and the          *)
(* int <-> text conversions are computed as the Python code computes them. *)
(***************************************************************************)
EXTENDS Integers, Sequences, FiniteSets, TLC

(* ------------------------------ bounds --------------------------------- *)

\* longest version string drawn for compare_version
MaxVerLen == 3
\* largest file counter that may already exist on disk for versioned
MaxCounter == 10
\* longest tag drawn for create_pnames
MaxTagLen == 2

(* ------------------------- string primitives --------------------------- *)

Digits == <<"0", "1", "2", "3", "4", "5", "6", "7", "8", "9">>

DigitSet == {Digits[i] : i \in 1..10}

\* the value of a decimal digit character
DigitVal(c) == (CHOOSE i \in 1..10 : Digits[i] = c) - 1

\* code points of the characters the model uses (Python compares str by code point)
Ord(c) ==
    CASE c = " " -> 32
      [] c = "-" -> 45
      [] c = "." -> 46
      [] c = "/" -> 47
      [] c \in DigitSet -> 48 + DigitVal(c)
      [] c = "_" -> 95
      [] OTHER -> 97

\* Python's `a < b` on str: lexicographic by code point, a proper prefix is smaller
RECURSIVE StrLess(_, _)
StrLess(a, b) ==
    IF b = <<>> THEN FALSE
    ELSE IF a = <<>> THEN TRUE
    ELSE IF Head(a) = Head(b) THEN StrLess(Tail(a), Tail(b))
    ELSE Ord(Head(a)) < Ord(Head(b))

\* int(s) raises ValueError unless s is a non-empty run of digits
IsInt(s) == Len(s) > 0 /\ \A i \in 1..Len(s) : s[i] \in DigitSet

\* int(s) for a digit string
RECURSIVE ParseInt(_)
ParseInt(s) ==
    IF s = <<>> THEN 0
    ELSE 10 * ParseInt(SubSeq(s, 1, Len(s) - 1)) + DigitVal(s[Len(s)])

\* '%d' % n for n >= 0
RECURSIVE IntToStr(_)
IntToStr(n) ==
    IF n < 10 THEN <<Digits[n + 1]>>
    ELSE IntToStr(n \div 10) \o <<Digits[(n % 10) + 1]>>

StartsWith(s, p) == Len(s) >= Len(p) /\ SubSeq(s, 1, Len(p)) = p

EndsWith(s, p) == Len(s) >= Len(p) /\ SubSeq(s, Len(s) - Len(p) + 1, Len(s)) = p

\* `sub in s`
Contains(s, sub) ==
    \E i \in 1..(Len(s) - Len(sub) + 1) : SubSeq(s, i, i + Len(sub) - 1) = sub

(* --------------------------- compare_version --------------------------- *)

Separators == {".", "-"}

\* re.split(r'[.-]', s): the pieces between separators, empty pieces kept
RECURSIVE Split(_)
Split(s) ==
    IF \A i \in 1..Len(s) : s[i] \notin Separators THEN <<s>>
    ELSE LET k == CHOOSE i \in 1..Len(s) :
                      /\ s[i] \in Separators
                      /\ \A j \in 1..(i - 1) : s[j] \notin Separators
         IN <<SubSeq(s, 1, k - 1)>> \o Split(SubSeq(s, k + 1, Len(s)))

Min(a, b) == IF a <= b THEN a ELSE b

\* operator.eq(int(a), int(b)) as the integer Python compares it as: True is 1, False is 0
EqAsInt(a, b) == IF a = b THEN 1 ELSE 0

\* the value the loop body returns at the first index whose pieces differ as strings
CompareAt(xp, yp) ==
    IF IsInt(xp) /\ IsInt(yp) THEN EqAsInt(ParseInt(xp), ParseInt(yp)) ELSE 0

compare_version(x, y) ==
    LET x_array == Split(x)
        y_array == Split(y)
        n == Min(Len(x_array), Len(y_array))
        differs == {i \in 1..n : x_array[i] # y_array[i]}
    IN IF differs = {} THEN 0
       ELSE LET index == CHOOSE i \in differs : \A j \in differs : i <= j
            IN CompareAt(x_array[index], y_array[index])

(* ------------------------------ versioned ------------------------------ *)

\* index of the last occurrence of character c in s, 0 when there is none
LastIndexOf(s, c) ==
    IF \E i \in 1..Len(s) : s[i] = c
    THEN CHOOSE i \in 1..Len(s) : s[i] = c /\ \A j \in (i + 1)..Len(s) : s[j] # c
    ELSE 0

\* os.path.splitext: split before the last dot of the last path component,
\* unless that component has only dots in front of it
SplitExt(filename) ==
    LET slash == LastIndexOf(filename, "/")
        dot == LastIndexOf(filename, ".")
    IN IF dot > slash + 1 /\ \E j \in (slash + 1)..(dot - 1) : filename[j] # "."
       THEN <<SubSeq(filename, 1, dot - 1), SubSeq(filename, dot, Len(filename))>>
       ELSE <<filename, <<>>>>

\* glob.glob(name + '*' + ext) over the files on disk
Glob(name, ext, files) ==
    {f \in files : /\ Len(f) >= Len(name) + Len(ext)
                   /\ StartsWith(f, name)
                   /\ EndsWith(f, ext)
                   /\ "/" \notin {f[j] : j \in (Len(name) + 1)..(Len(f) - Len(ext))}}

\* the position re.I is passed as to Pattern.search(string, pos): re.I = 2
SearchPos == 2

\* REGEX_FILE_COUNTER = _(?P<i>[0-9]+)\.(?:[^.]+)$ matches at 1-based index p of x,
\* with a counter of k digits
CounterMatchAt(x, p, k) ==
    /\ p + k + 2 <= Len(x)
    /\ x[p] = "_"
    /\ \A j \in (p + 1)..(p + k) : x[j] \in DigitSet
    /\ x[p + k + 1] = "."
    /\ \A j \in (p + k + 2)..Len(x) : x[j] # "."

\* REGEX_FILE_COUNTER.search(x, re.I).group('i'), or <<>> when search returns None
FileCounter(x) ==
    LET hits == {pk \in ((SearchPos + 1)..Len(x)) \X (1..Len(x)) :
                     CounterMatchAt(x, pk[1], pk[2])}
    IN IF hits = {} THEN <<>>
       ELSE LET h == CHOOSE a \in hits : \A b \in hits : a[1] <= b[1]
            IN SubSeq(x, h[1] + 1, h[1] + h[2])

\* max() of a non-empty collection of str
StrMax(S) == CHOOSE m \in S : \A o \in S : ~StrLess(m, o)

versioned(filename, files) ==
    LET name == SplitExt(filename)[1]
        ext == SplitExt(filename)[2]
        matched == Glob(name, ext, files)
        file_counters == {FileCounter(x) : x \in matched} \ {<<>>}
        i == IF file_counters # {} THEN ParseInt(StrMax(file_counters)) + 1 ELSE 1
    IN IF matched = {} THEN filename
       ELSE name \o <<"_">> \o IntToStr(i) \o ext

(* ---------------------------- create_pnames ---------------------------- *)

\* Python's None for an optional str argument
None == <<"None">>

\* truth value of an optional str: None and '' are false
Truthy(s) == s # None /\ s # <<>>

\* the characters of [A-Za-z0-9_-] among those the model uses
TagCharOk(c) == c = "a" \/ c = "_" \/ c = "-" \/ c \in DigitSet

\* re.sub('[^A-Za-z0-9_-]', '_', tag)
SubInvalid(tag) == [i \in 1..Len(tag) |-> IF TagCharOk(tag[i]) THEN tag[i] ELSE "_"]

\* re.sub('_+', '_', tag)
RECURSIVE SquashUnderscores(_)
SquashUnderscores(tag) ==
    IF Len(tag) < 2 THEN tag
    ELSE IF tag[1] = "_" /\ tag[2] = "_" THEN SquashUnderscores(Tail(tag))
    ELSE <<tag[1]>> \o SquashUnderscores(Tail(tag))

CleanTag(tag) ==
    LET t == SubInvalid(tag)
    IN IF Contains(t, <<"_", "_">>) THEN SquashUnderscores(t) ELSE t

PatchSuffix == <<".", "p", "a", "t", "c", "h", ".", "s", "q", "l">>

RevertSuffix == <<".", "r", "e", "v", "e", "r", "t", ".", "s", "q", "l">>

\* d is datetime.now().strftime(date_format)
create_pnames(db, tag, d, no_date) ==
    LET basename ==
            IF Truthy(tag) THEN db \o <<"_">> \o CleanTag(tag) \o <<".">> \o d
            ELSE IF no_date THEN db
            ELSE db \o <<".">> \o d
    IN <<basename \o PatchSuffix, basename \o RevertSuffix>>

(* ------------------------------- state --------------------------------- *)

VARIABLES
    opt,             \* the keyword arguments main passes to app
    pc,              \* position of the running app call
    db,              \* database name of the URLs of the running app call
    source_version,  \* source_obj.version
    target_version,  \* target_obj.version
    filter_tables,   \* the local filter_tables of the running app call
    tables,          \* rows of SHOW TABLES on the target
    sync_filter,     \* <<f>> once sync_schema was called with filter_tables=f
    consumed,        \* the sync generators the running app call has iterated
    last,            \* patch, revert: the pair bound by the running loop
    db_selected,
    p_buffer,
    r_buffer,
    disk,            \* output directory: file name -> lines
    alerts,          \* messages posted to the alert URL
    ret,             \* <<v>> once the outermost app call returned v
    exc,             \* exception leaving the running app call
    schemas,         \* wildcard mode: the schema listing
    idx,             \* wildcard mode: schemas iterated so far
    invoked,         \* wildcard mode: database names app was invoked for, in order
    logged,          \* the errors logged with logging.error
    yields,          \* pairs yielded so far in the run
    call,            \* arguments of a helper evaluated on its own
    result           \* its result

locals == <<db, source_version, target_version, filter_tables, tables, sync_filter,
            consumed, last, db_selected, p_buffer, r_buffer>>

wildvars == <<schemas, idx, invoked, logged>>

helper == <<call, result>>

vars == <<opt, pc, locals, disk, alerts, ret, exc, wildvars, yields, helper>>

(* -------------------------- values of the model ------------------------ *)

\* most pairs the generators of one run yield
MaxYields == 2

Star == <<"*">>

DbNames == {<<"a">>, <<"b">>}

V4_1_22 == <<"4", ".", "1", ".", "2", "2">>

V5_0_0 == <<"5", ".", "0", ".", "0">>

\* the (source, target) server versions a run may meet
ServerVersions == {<<V4_1_22, V5_0_0>>, <<V5_0_0, V4_1_22>>, <<V5_0_0, V5_0_0>>}

MinVersion == V5_0_0

\* the filter_tables values of the command line: absent, or --tables t1
UserFilters == {None, <<"t1">>}

\* the table listings of the target
TargetTables == {<<"t2">>, <<"t1", "t2">>}

OutputDirectory == <<"/", "o">>

Today == <<"2", "0", "2", "1", "0", "1", "0", "1">>

Kinds == <<"table", "view", "trigger", "procedure">>

\* a statement line of a script: <<what, number, side>>
UseStmt == <<"use", 0, "sql">>

FkChecks(sw) == <<"fk_checks", sw, "sql">>

\* the lines of PATCH_TPL in front of %(data)s
HeaderLines == 7

Header(type) == [i \in 1..HeaderLines |-> <<"header", i, type>>]

\* text of the n-th pair: one statement, or the empty string
Block(kind, n, side, present) == IF present THEN <<<<kind, n, side>>>> ELSE <<>>

\* the (patch, revert) pairs a sync generator may yield as its n-th pair
YieldablePairs(kind, n) ==
    {[kind |-> kind, patch |-> Block(kind, n, "patch", hp),
      revert |-> Block(kind, n, "revert", hr)] : hp \in BOOLEAN, hr \in BOOLEAN}

NoPair == [kind |-> "none", patch |-> <<>>, revert |-> <<>>]

NoBuffer == [name |-> <<>>, data |-> <<>>, modified |-> FALSE]

NoCall == <<>>

EmptyDisk == [f \in {} |-> <<>>]

(* ----------------------------- PatchBuffer ----------------------------- *)

\* PatchBuffer.__init__
PatchBuffer(name) == [name |-> name, data |-> <<>>, modified |-> FALSE]

\* mutant of PBWrite: the text is put in front of the buffer
PBWriteFront(buf, data) == [buf EXCEPT !.data = data \o @, !.modified = TRUE]

\* PatchBuffer.write, for a text of whole lines
PBWrite(buf, data) == [buf EXCEPT !.data = @ \o data, !.modified = TRUE]

\* os.path.join(output_directory, fname)
PathJoin(dir, fname) == dir \o <<"/">> \o fname

DiskWrite(d, name, lines) ==
    [f \in (DOMAIN d) \cup {name} |-> IF f = name THEN lines ELSE d[f]]

\* os.remove / os.unlink of an existing file
DiskRemove(d, name) == [f \in (DOMAIN d) \ {name} |-> d[f]]

\* the name PatchBuffer.save opens
SaveName(buf, version_filename, d) ==
    IF version_filename THEN versioned(buf.name, DOMAIN d) ELSE buf.name

\* the file PatchBuffer.save writes: the template's header, then the buffer's lines.
\* A script text is a sequence of whole statement lines ("<statement>;" and a newline);
\* the filters of app (runs of whitespace, blanks before a final ';', blanks after ';')
\* leave such lines as they are, so the saved lines are the written ones
SaveContent(buf, type) == Header(type) \o buf.data

\* PatchBuffer.delete
PBDelete(buf, d) == IF buf.name \in DOMAIN d THEN DiskRemove(d, buf.name) ELSE d

(* ------------------------------ send_alert ----------------------------- *)

\* list.remove(x): the list without the first occurrence of x
ListRemove(l, x) ==
    LET k == CHOOSE i \in 1..Len(l) : l[i] = x /\ \A j \in 1..(i - 1) : l[j] # x
    IN SubSeq(l, 1, k - 1) \o SubSeq(l, k + 1, Len(l))

InList(l, x) == \E i \in 1..Len(l) : l[i] = x

\* readlines()[7:]
AlertSkip == 7

AlertLines(lines) == SubSeq(lines, AlertSkip + 1, Len(lines))

\* send_alert raises ValueError when either remove() misses its line
AlertRaises(lines) ==
    \/ ~InList(AlertLines(lines), FkChecks(0))
    \/ ~InList(ListRemove(AlertLines(lines), FkChecks(0)), FkChecks(1))

\* infos, the statements send_alert posts
AlertInfos(lines) == ListRemove(ListRemove(AlertLines(lines), FkChecks(0)), FkChecks(1))

(* --------------------------------- app --------------------------------- *)

Wildcard == opt.db = Star

FreshLocals ==
    /\ source_version' = <<>>
    /\ target_version' = <<>>
    /\ filter_tables' = opt.filter_tables
    /\ tables' = None
    /\ sync_filter' = <<>>
    /\ consumed' = {}
    /\ last' = NoPair
    /\ db_selected' = FALSE
    /\ p_buffer' = NoBuffer
    /\ r_buffer' = NoBuffer

\* the running app call returns v
Return(v) ==
    /\ pc' = IF Wildcard THEN "returned" ELSE "done"
    /\ ret' = IF Wildcard THEN ret ELSE <<v>>
    /\ exc' = ""

\* exception e leaves the running app call
Raise(e) ==
    /\ pc' = IF Wildcard THEN "returned" ELSE "done"
    /\ exc' = e
    /\ UNCHANGED ret

\* lines 277-334: the output directory or a database URL is rejected
StartInvalid ==
    /\ pc = "start"
    /\ pc' = "done"
    /\ ret' = <<1>>
    /\ UNCHANGED <<opt, locals, disk, alerts, exc, wildvars, yields, helper>>

\* lines 277-336: the arguments are accepted, the URLs name one database
StartSingle ==
    /\ pc = "start"
    /\ ~Wildcard
    /\ pc' = "connect"
    /\ db' = opt.db
    /\ UNCHANGED <<opt, source_version, target_version, filter_tables, tables,
                   sync_filter, consumed, last, db_selected, p_buffer, r_buffer,
                   disk, alerts, ret, exc, wildvars, yields, helper>>

\* the schema listings information_schema.SCHEMATA may return
Listings ==
    {l \in UNION {[1..n -> DbNames] : n \in 0..Cardinality(DbNames)} :
        \A i, j \in 1..Len(l) : i # j => l[i] # l[j]}

\* lines 336-347: both URLs name '*', the schemas are listed
WildcardStart ==
    /\ pc = "start"
    /\ Wildcard
    /\ \E l \in Listings : schemas' = l
    /\ pc' = "wild_loop"
    /\ UNCHANGED <<opt, locals, disk, alerts, ret, exc, idx, invoked, logged, yields,
                   helper>>

\* lines 341-347: connecting or listing fails, the DatabaseError leaves app
WildcardStartFails ==
    /\ pc = "start"
    /\ Wildcard
    /\ pc' = "done"
    /\ exc' = "DatabaseError"
    /\ UNCHANGED <<opt, locals, disk, alerts, ret, wildvars, yields, helper>>

\* lines 348-358: the next schema of the listing, app is called for it
WildcardCall ==
    /\ pc = "wild_loop"
    /\ idx < Len(schemas)
    /\ idx' = idx + 1
    /\ db' = schemas[idx + 1]
    /\ invoked' = Append(invoked, schemas[idx + 1])
    /\ FreshLocals
    /\ pc' = "connect"
    /\ UNCHANGED <<opt, disk, alerts, ret, exc, schemas, logged, yields, helper>>

\* mutant of Catches: the loop has no except clause
CatchesNothing(e) == FALSE

\* line 359: the except clause of the loop catches e
Catches(e) == e = "DatabaseError"

\* lines 352-360: the call returned or raised
WildcardReturn ==
    /\ pc = "returned"
    /\ IF exc = "" \/ Catches(exc)
       THEN /\ pc' = "wild_loop"
            /\ exc' = ""
            /\ logged' = IF exc = "" THEN logged
                         ELSE Append(logged, <<"MySQL Error (Ignore)", db>>)
       ELSE /\ pc' = "done"
            /\ UNCHANGED <<exc, logged>>
    /\ db' = <<>>
    /\ FreshLocals
    /\ UNCHANGED <<opt, disk, alerts, ret, schemas, idx, invoked, yields, helper>>

\* line 361: the listing is exhausted
WildcardEnd ==
    /\ pc = "wild_loop"
    /\ idx = Len(schemas)
    /\ pc' = "done"
    /\ ret' = <<1>>
    /\ UNCHANGED <<opt, locals, disk, alerts, exc, wildvars, yields, helper>>

\* lines 366, 371: the server is older than MySQL 5.0
TooOld(version) == compare_version(version, MinVersion) < 0

\* lines 363-374: connect to both servers, reject the unsupported ones
Connect ==
    /\ pc = "connect"
    /\ \E v \in ServerVersions :
          /\ source_version' = v[1]
          /\ target_version' = v[2]
          /\ IF TooOld(v[1]) \/ TooOld(v[2])
             THEN /\ Return(1)
                  /\ logged' = Append(logged, <<"requires MySQL version 5.0+", db>>)
             ELSE pc' = "prepare" /\ UNCHANGED <<ret, exc, logged>>
    /\ UNCHANGED <<opt, db, filter_tables, tables, sync_filter, consumed, last,
                   db_selected, p_buffer, r_buffer, disk, alerts, schemas, idx,
                   invoked, yields, helper>>

\* the rows SHOW TABLES FROM <database> returns for a listing of table names
ShowTables(database, listing) ==
    [i \in 1..Len(listing) |-> [column |-> <<"Tables_in", database>>, value |-> listing[i]]]

\* line 386: list(map(lambda d: d[key], tables))
ColumnOf(rows, key) ==
    [i \in 1..Len(rows) |-> IF rows[i].column = key THEN rows[i].value ELSE "KeyError"]

\* mutant of ResolveFilter: the target's listing never replaces the user's filter
ResolveFilterKeepsUser(only_sync_exists_tables, user_filter, rows, database) ==
    user_filter

\* lines 376-387: the table filter after the only_sync_exists_tables branch
ResolveFilter(only_sync_exists_tables, user_filter, rows, database) ==
    IF only_sync_exists_tables THEN ColumnOf(rows, <<"Tables_in", database>>)
    ELSE user_filter

\* lines 376-421: resolve the filter, name the scripts, create the buffers and
\* call sync_schema
Prepare ==
    /\ pc = "prepare"
    /\ \E listing \in TargetTables :
          /\ tables' = IF opt.only_sync_exists_tables THEN ShowTables(db, listing)
                        ELSE tables
          /\ filter_tables' = ResolveFilter(opt.only_sync_exists_tables, filter_tables,
                                            ShowTables(db, listing), db)
    /\ LET names == create_pnames(db, opt.tag, Today, opt.no_date)
       IN /\ p_buffer' = PatchBuffer(PathJoin(OutputDirectory, names[1]))
          /\ r_buffer' = PatchBuffer(PathJoin(OutputDirectory, names[2]))
    /\ sync_filter' = <<filter_tables'>>
    /\ db_selected' = FALSE
    /\ pc' = "tables"
    /\ UNCHANGED <<opt, db, source_version, target_version, consumed, last, disk,
                   alerts, ret, exc, wildvars, yields, helper>>

\* a connection or a query fails while app talks to a server
DatabaseErrorRaised ==
    /\ pc \in {"connect", "prepare", "tables", "views", "triggers", "procedures"}
    /\ Raise("DatabaseError")
    /\ UNCHANGED <<opt, locals, disk, alerts, wildvars, yields, helper>>

\* lines 422, 439, 450, 461: the test that guards the writes of a pair
PairWritten(pair) == pair.patch # <<>> /\ pair.revert # <<>>

\* lines 423-428, 440-443, 451-454, 462-467: what the first written pair is preceded by
Preamble(kind) ==
    IF kind \in {"table", "procedure"} THEN <<UseStmt, FkChecks(0)>> ELSE <<UseStmt>>

\* the body of one of the four loops, for the pair the generator yielded
LoopBody(kind, pair) ==
    /\ last' = pair
    /\ consumed' = consumed \cup {kind}
    /\ yields' = yields + 1
    /\ IF PairWritten(pair)
       THEN LET pre == IF db_selected THEN <<>> ELSE Preamble(kind)
            IN /\ p_buffer' = PBWrite(PBWrite(p_buffer, pre), pair.patch)
               /\ r_buffer' = PBWrite(PBWrite(r_buffer, pre), pair.revert)
               /\ db_selected' = TRUE
       ELSE UNCHANGED <<db_selected, p_buffer, r_buffer>>
    /\ UNCHANGED <<opt, pc, db, source_version, target_version, filter_tables,
                   tables, sync_filter, disk, alerts, ret, exc, wildvars, helper>>

\* mutant of LoopExit: the patch script is saved whenever a generator is exhausted
LoopExitSaving(kind, next) ==
    /\ consumed' = consumed \cup {kind}
    /\ last' = NoPair
    /\ pc' = next
    /\ disk' = IF p_buffer.modified
               THEN DiskWrite(disk, p_buffer.name, SaveContent(p_buffer, "Patch Script"))
               ELSE disk
    /\ UNCHANGED <<opt, db, source_version, target_version, filter_tables, tables,
                   sync_filter, alerts, ret, exc, wildvars, yields, helper>>

\* a generator is exhausted: the loop ends and app moves on
LoopExit(kind, next) ==
    /\ consumed' = consumed \cup {kind}
    /\ last' = NoPair
    /\ pc' = next
    /\ UNCHANGED <<opt, db, source_version, target_version, filter_tables, tables,
                   sync_filter, disk, alerts, ret, exc, wildvars, yields, helper>>

\* lines 419-431
TablePair ==
    /\ pc = "tables"
    /\ yields < MaxYields
    /\ \E pair \in YieldablePairs("table", yields + 1) : LoopBody("table", pair)

\* lines 433-435
TablesDone ==
    /\ pc = "tables"
    /\ LoopExit("table", "views")
    /\ IF db_selected
       THEN /\ p_buffer' = PBWrite(p_buffer, <<FkChecks(1)>>)
            /\ r_buffer' = PBWrite(r_buffer, <<FkChecks(1)>>)
       ELSE UNCHANGED <<p_buffer, r_buffer>>
    /\ UNCHANGED db_selected

\* lines 437-446
ViewPair ==
    /\ pc = "views"
    /\ yields < MaxYields
    /\ \E pair \in YieldablePairs("view", yields + 1) : LoopBody("view", pair)

ViewsDone ==
    /\ pc = "views"
    /\ LoopExit("view", "triggers")
    /\ UNCHANGED <<db_selected, p_buffer, r_buffer>>

\* lines 448-457
TriggerPair ==
    /\ pc = "triggers"
    /\ yields < MaxYields
    /\ \E pair \in YieldablePairs("trigger", yields + 1) : LoopBody("trigger", pair)

TriggersDone ==
    /\ pc = "triggers"
    /\ LoopExit("trigger", "procedures")
    /\ UNCHANGED <<db_selected, p_buffer, r_buffer>>

\* lines 459-470
ProcedurePair ==
    /\ pc = "procedures"
    /\ yields < MaxYields
    /\ \E pair \in YieldablePairs("procedure", yields + 1) : LoopBody("procedure", pair)

ProceduresDone ==
    /\ pc = "procedures"
    /\ LoopExit("procedure", "finish")
    /\ UNCHANGED <<db_selected, p_buffer, r_buffer>>

\* lines 472-476, 503: nothing was written to the patch buffer
FinishInSync ==
    /\ pc = "finish"
    /\ ~p_buffer.modified
    /\ Return(0)
    /\ UNCHANGED <<opt, locals, disk, alerts, wildvars, yields, helper>>

\* p_buffer after p_buffer.save() chose its name
SavedPatch == [p_buffer EXCEPT !.name = SaveName(p_buffer, opt.version_filename, disk)]

\* the disk after p_buffer.save()
DiskAfterPatch == DiskWrite(disk, SavedPatch.name, SaveContent(p_buffer, "Patch Script"))

\* r_buffer after r_buffer.save() chose its name
SavedRevert ==
    [r_buffer EXCEPT !.name = SaveName(r_buffer, opt.version_filename, DiskAfterPatch)]

\* the disk after both saves
DiskAfterSave ==
    DiskWrite(DiskAfterPatch, SavedRevert.name, SaveContent(r_buffer, "Revert Script"))

\* line 486: the condition of the alert
Alerting ==
    SavedPatch.name \in DOMAIN DiskAfterSave /\ SavedPatch.modified /\ opt.alert_url

\* lines 491-495: the result files after the alert was sent
DiskAfterAlert ==
    IF opt.no_delete_result THEN DiskAfterSave
    ELSE DiskRemove(DiskRemove(DiskAfterSave, SavedPatch.name), SavedRevert.name)

\* lines 477-495, 503: both scripts are saved and, with an alert URL, send_alert runs
FinishSaved ==
    /\ pc = "finish"
    /\ p_buffer.modified
    /\ p_buffer' = SavedPatch
    /\ r_buffer' = SavedRevert
    /\ IF ~Alerting
       THEN /\ disk' = DiskAfterSave
            /\ Return(0)
            /\ UNCHANGED alerts
       ELSE IF AlertRaises(DiskAfterSave[SavedPatch.name])
       THEN /\ disk' = DiskAfterSave
            /\ Raise("ValueError")
            /\ UNCHANGED alerts
       ELSE /\ alerts' = Append(alerts, [db |-> db,
                                         sql |-> AlertInfos(DiskAfterSave[SavedPatch.name])])
            /\ disk' = DiskAfterAlert
            /\ Return(0)
    /\ UNCHANGED <<opt, db, source_version, target_version, filter_tables, tables,
                   sync_filter, consumed, last, db_selected, wildvars, yields, helper>>

\* lines 497-501: open() of a script, or the post to the alert URL, raises OSError
FinishOSError ==
    /\ pc = "finish"
    /\ p_buffer.modified
    /\ \E at \in {"patch", "revert", "post"} :
          \/ /\ at = "patch"
             /\ p_buffer' = SavedPatch
             /\ UNCHANGED r_buffer
             /\ disk' = PBDelete(r_buffer, PBDelete(SavedPatch, disk))
          \/ /\ at = "revert"
             /\ p_buffer' = SavedPatch
             /\ r_buffer' = SavedRevert
             /\ disk' = PBDelete(SavedRevert, PBDelete(SavedPatch, DiskAfterPatch))
          \/ /\ at = "post"
             /\ Alerting
             /\ ~AlertRaises(DiskAfterSave[SavedPatch.name])
             /\ p_buffer' = SavedPatch
             /\ r_buffer' = SavedRevert
             /\ disk' = PBDelete(SavedRevert, PBDelete(SavedPatch, DiskAfterSave))
    /\ Return(1)
    /\ logged' = Append(logged, <<"Failed writing migration scripts", db>>)
    /\ UNCHANGED <<opt, db, source_version, target_version, filter_tables, tables,
                   sync_filter, consumed, last, db_selected, alerts, schemas, idx,
                   invoked, yields, helper>>

(* ---------------------------- specification ---------------------------- *)

\* command lines naming database a in both URLs: every combination of the switches
\* app reads (--no-delete only together with --url, which alone reads it)
SingleOptions ==
    {o \in [db : {<<"a">>},
            only_sync_exists_tables : BOOLEAN,
            filter_tables : UserFilters,
            alert_url : BOOLEAN,
            no_delete_result : BOOLEAN,
            version_filename : BOOLEAN,
            no_date : {FALSE},
            tag : {None}] : o.no_delete_result => o.alert_url}

\* command lines naming '*' in both URLs
WildcardOptions ==
    [db : {Star},
     only_sync_exists_tables : BOOLEAN,
     filter_tables : {None},
     alert_url : BOOLEAN,
     no_delete_result : {FALSE},
     version_filename : {FALSE},
     no_date : {FALSE},
     tag : {None}]

Options == SingleOptions \cup WildcardOptions

\* the scripts an earlier run for database a left in the output directory
OldScripts ==
    LET names == create_pnames(<<"a">>, None, Today, FALSE)
    IN DiskWrite(DiskWrite(EmptyDisk, PathJoin(OutputDirectory, names[1]),
                           Header("Patch Script") \o <<<<"old", 0, "patch">>>>),
                 PathJoin(OutputDirectory, names[2]),
                 Header("Revert Script") \o <<<<"old", 0, "revert">>>>)

InitialDisks == {EmptyDisk, OldScripts}

HelperIdle == call = NoCall /\ result = NoCall

AppIdle ==
    /\ db = <<>>
    /\ source_version = <<>>
    /\ target_version = <<>>
    /\ tables = None
    /\ sync_filter = <<>>
    /\ consumed = {}
    /\ last = NoPair
    /\ db_selected = FALSE
    /\ p_buffer = NoBuffer
    /\ r_buffer = NoBuffer
    /\ alerts = <<>>
    /\ ret = <<>>
    /\ exc = ""
    /\ schemas = <<>>
    /\ idx = 0
    /\ invoked = <<>>
    /\ logged = <<>>
    /\ yields = 0

Init ==
    /\ opt \in Options
    /\ pc = "start"
    /\ filter_tables = opt.filter_tables
    /\ disk \in InitialDisks
    /\ AppIdle
    /\ HelperIdle

Next ==
    \/ StartInvalid
    \/ StartSingle
    \/ WildcardStart
    \/ WildcardStartFails
    \/ WildcardCall
    \/ WildcardReturn
    \/ WildcardEnd
    \/ Connect
    \/ Prepare
    \/ DatabaseErrorRaised
    \/ TablePair
    \/ TablesDone
    \/ ViewPair
    \/ ViewsDone
    \/ TriggerPair
    \/ TriggersDone
    \/ ProcedurePair
    \/ ProceduresDone
    \/ FinishInSync
    \/ FinishSaved
    \/ FinishOSError

Spec == Init /\ [][Next]_vars

(* ---------------------- the helpers on their own ----------------------- *)

\* app is not running while a helper is evaluated on its own
HelperInit ==
    /\ opt = CHOOSE o \in SingleOptions : TRUE
    /\ pc = "helper"
    /\ filter_tables = None
    /\ disk = EmptyDisk
    /\ AppIdle
    /\ result = NoCall

StringsOver(alphabet, lo, hi) == UNION {[1..n -> alphabet] : n \in lo..hi}

VersionAlphabet == {"0", "1", ".", "-"}

VersionStrings == StringsOver(VersionAlphabet, 1, MaxVerLen)

CompareInit ==
    /\ HelperInit
    /\ call \in [fn : {"compare_version"}, x : VersionStrings, y : VersionStrings]

CompareEval ==
    /\ call.fn = "compare_version"
    /\ result = NoCall
    /\ result' = <<compare_version(call.x, call.y)>>
    /\ UNCHANGED <<opt, pc, locals, disk, alerts, ret, exc, wildvars, yields, call>>

CompareSpec == CompareInit /\ [][CompareEval]_vars

\* the patch script of database a, as app names it
ScriptName == PathJoin(OutputDirectory, create_pnames(<<"a">>, None, Today, FALSE)[1])

\* the name versioned gives the k-th revision of a file
Revision(filename, k) ==
    SplitExt(filename)[1] \o <<"_">> \o IntToStr(k) \o SplitExt(filename)[2]

\* the files earlier runs may have left: the script and its revisions
ScriptFiles == {ScriptName} \cup {Revision(ScriptName, k) : k \in 1..MaxCounter}

VersionedInit ==
    /\ HelperInit
    /\ call \in [fn : {"versioned"}, filename : {ScriptName}, files : SUBSET ScriptFiles]

VersionedEval ==
    /\ call.fn = "versioned"
    /\ result = NoCall
    /\ result' = <<versioned(call.filename, call.files)>>
    /\ UNCHANGED <<opt, pc, locals, disk, alerts, ret, exc, wildvars, yields, call>>

VersionedSpec == VersionedInit /\ [][VersionedEval]_vars

TagAlphabet == {"a", " ", "_"}

Tags == {None} \cup StringsOver(TagAlphabet, 0, MaxTagLen)

Dates == {Today, <<"2", "0", "2", "1", "1", "2", "3", "1">>}

PnamesInit ==
    /\ HelperInit
    /\ call \in [fn : {"create_pnames"}, db : DbNames, tag : Tags, d : Dates,
                 no_date : BOOLEAN]

PnamesEval ==
    /\ call.fn = "create_pnames"
    /\ result = NoCall
    /\ result' = <<create_pnames(call.db, call.tag, call.d, call.no_date)>>
    /\ UNCHANGED <<opt, pc, locals, disk, alerts, ret, exc, wildvars, yields, call>>

PnamesSpec == PnamesInit /\ [][PnamesEval]_vars

(* ------------------------------- claims -------------------------------- *)

AllInt(v) == \A i \in 1..Len(Split(v)) : IsInt(Split(v)[i])

NumAt(v, i) == ParseInt(Split(v)[i])

\* the common positions at which two versions differ numerically
NumDiffs(x, y) ==
    {i \in 1..Min(Len(Split(x)), Len(Split(y))) : NumAt(x, i) # NumAt(y, i)}

\* the order of two versions of integer components, compared numerically from the left
VersionOrder(x, y) ==
    IF NumDiffs(x, y) = {} THEN 0
    ELSE LET i == CHOOSE k \in NumDiffs(x, y) : \A j \in NumDiffs(x, y) : k <= j
         IN IF NumAt(x, i) < NumAt(y, i) THEN -1 ELSE 1

Sign(n) == IF n < 0 THEN -1 ELSE IF n > 0 THEN 1 ELSE 0

\* C1: once a run has met a source or a target server below 5.0.0, app has returned 1,
\* has iterated no sync generator and has left the output directory as it was
C1_RejectsOldServers ==
    (/\ ~Wildcard
     /\ source_version # <<>>
     /\ \/ VersionOrder(source_version, MinVersion) < 0
        \/ VersionOrder(target_version, MinVersion) < 0)
    => /\ pc = "done"
       /\ ret = <<1>>
       /\ consumed = {}
       /\ disk \in InitialDisks

\* C2: for versions of integer components, compare_version is negative, zero or
\* positive as x is below, equal to or above y in the numeric left-to-right order
C2_CompareVersionOrders ==
    (/\ result # NoCall
     /\ AllInt(call.x)
     /\ AllInt(call.y)
     /\ \/ Len(Split(call.x)) = Len(Split(call.y))
        \/ NumDiffs(call.x, call.y) # {})
    => Sign(result[1]) = VersionOrder(call.x, call.y)

Positions(data, st) == {i \in 1..Len(data) : data[i] = st}

TablePositions(data) == {i \in 1..Len(data) : data[i][1] = "table"}

\* no FOREIGN_KEY_CHECKS statement, or one disable, later one enable, and every table
\* block between the two
FkPaired(data) ==
    \/ Positions(data, FkChecks(0)) = {} /\ Positions(data, FkChecks(1)) = {}
    \/ /\ Cardinality(Positions(data, FkChecks(0))) = 1
       /\ Cardinality(Positions(data, FkChecks(1))) = 1
       /\ \A z \in Positions(data, FkChecks(0)), o \in Positions(data, FkChecks(1)) :
             /\ z < o
             /\ \A t \in TablePositions(data) : z < t /\ t < o

\* C3: when the four loops are over, the FOREIGN_KEY_CHECKS statements of the patch
\* and of the revert script are none, or one disable/enable pair around the table blocks
C3_FkChecksPaired ==
    pc = "finish" => FkPaired(p_buffer.data) /\ FkPaired(r_buffer.data)

\* C4: sync_schema is called with the target's table names when
\* only_sync_exists_tables is set, and with the user's filter_tables otherwise
C4_FilterPassed ==
    sync_filter # <<>> =>
        sync_filter[1] = IF opt.only_sync_exists_tables
                         THEN [i \in 1..Len(tables) |-> tables[i].value]
                         ELSE opt.filter_tables

\* C4 witness: the user's filter was replaced by a different target listing
C4_Witness ==
    /\ sync_filter # <<>>
    /\ opt.only_sync_exists_tables
    /\ opt.filter_tables = <<"t1">>
    /\ sync_filter[1] = <<"t1", "t2">>

\* C5: a yielded pair with a non-empty forward or backward text has its forward text
\* in the patch buffer and its backward text in the revert buffer
C5_OnlyEmptyPairsSkipped ==
    (last # NoPair /\ (last.patch # <<>> \/ last.revert # <<>>))
    => /\ \A i \in 1..Len(last.patch) : InList(p_buffer.data, last.patch[i])
       /\ \A i \in 1..Len(last.revert) : InList(r_buffer.data, last.revert[i])
       /\ p_buffer.modified
       /\ r_buffer.modified

KindRank(k) == CHOOSE i \in 1..Len(Kinds) : Kinds[i] = k

BlockPositions(data) ==
    {i \in 1..Len(data) : data[i][1] \in {Kinds[k] : k \in 1..Len(Kinds)}}

\* tables, then views, then triggers, then procedures, each kind in yield order
KindOrdered(data) ==
    \A i, j \in BlockPositions(data) :
        i < j => /\ KindRank(data[i][1]) <= KindRank(data[j][1])
                 /\ data[i][2] < data[j][2]

\* the two scripts list the same pairs at the same places
SamePairs(pdata, rdata) ==
    /\ Len(pdata) = Len(rdata)
    /\ \A i \in 1..Len(pdata) : pdata[i][1] = rdata[i][1] /\ pdata[i][2] = rdata[i][2]

\* C6: in both buffers and in every file written, the blocks are ordered by kind and,
\* within a kind, by yield; the two buffers list the same pairs in the same order
C6_BlocksOrdered ==
    /\ KindOrdered(p_buffer.data)
    /\ KindOrdered(r_buffer.data)
    /\ SamePairs(p_buffer.data, r_buffer.data)
    /\ \A f \in DOMAIN disk : KindOrdered(disk[f])

\* C6 witness: a saved script holds two blocks of different kinds
C6_Witness ==
    /\ pc = "done"
    /\ ret = <<0>>
    /\ \E f \in DOMAIN disk : \E i, j \in BlockPositions(disk[f]) :
          i < j /\ disk[f][i][1] # disk[f][j][1]

MaxRevision(filename, files) ==
    LET ks == {k \in 1..(MaxCounter + 1) : Revision(filename, k) \in files}
    IN IF ks = {} THEN 0 ELSE CHOOSE k \in ks : \A j \in ks : j <= k

\* C8: versioned returns the filename when no file matches, and otherwise the revision
\* one above the largest existing counter, which names no existing file
C8_VersionedNextFree ==
    result # NoCall =>
        IF call.files = {} THEN result[1] = call.filename
        ELSE /\ result[1] = Revision(call.filename,
                                     MaxRevision(call.filename, call.files) + 1)
             /\ result[1] \notin call.files

\* C9: with no_date the names hold no date; without it they are
\* <db>[_<tag>].<date>.patch.sql and <db>[_<tag>].<date>.revert.sql
C9_NoDateNames ==
    result # NoCall =>
        IF call.no_date
        THEN ~Contains(result[1][1], call.d) /\ ~Contains(result[1][2], call.d)
        ELSE LET base == IF Truthy(call.tag)
                         THEN call.db \o <<"_">> \o CleanTag(call.tag)
                         ELSE call.db
             IN /\ result[1][1] = base \o <<".">> \o call.d \o PatchSuffix
                /\ result[1][2] = base \o <<".">> \o call.d \o RevertSuffix

\* the statements of a script other than USE and FOREIGN_KEY_CHECKS
Statements(data) == SelectSeq(data, LAMBDA st : st # FkChecks(0) /\ st # FkChecks(1))

\* C10: a run with an alert URL that wrote a pair and met no database or file error
\* returns 0, has posted the patch statements, and keeps the result files exactly
\* when no_delete_result is set
C10_AlertSent ==
    (/\ ~Wildcard
     /\ pc = "done"
     /\ opt.alert_url
     /\ p_buffer.modified
     /\ exc # "DatabaseError"
     /\ ~InList(logged, <<"Failed writing migration scripts", db>>))
    => /\ ret = <<0>>
       /\ Len(alerts) = 1
       /\ alerts[1].sql = Statements(p_buffer.data)
       /\ (p_buffer.name \in DOMAIN disk) = opt.no_delete_result
       /\ (r_buffer.name \in DOMAIN disk) = opt.no_delete_result

\* the four sync generators
AllKinds == {Kinds[k] : k \in 1..Len(Kinds)}

\* C11: the output directory changes only in a step taken after all four sync
\* generators were iterated to the end, and only when a pair was written; so a run an
\* exception stops during the iteration leaves the directory as it found it, and a run
\* that ends the iteration with nothing written leaves it as it was and returns 0
C11_NoFileBeforeEnd ==
    /\ [](~Wildcard /\ exc = "DatabaseError" => disk \in InitialDisks)
    /\ [][(disk' # disk =>
              pc = "finish" /\ consumed = AllKinds /\ p_buffer.modified)
           /\ ((pc = "finish" /\ ~p_buffer.modified /\ pc' # pc) =>
                  /\ disk' = disk
                  /\ exc' = ""
                  /\ logged' = logged
                  /\ (~Wildcard => ret' = <<0>>))]_vars

\* C11 witness: a DatabaseError ended a run during the iteration, after a pair was
\* written to the buffers, and the output directory is still empty
C11_Witness ==
    /\ ~Wildcard
    /\ pc = "done"
    /\ exc = "DatabaseError"
    /\ consumed # {}
    /\ p_buffer.modified
    /\ Len(p_buffer.data) > 0
    /\ disk = EmptyDisk

====
